---- MODULE Spec2Model ----
(***************************************************************************)
(* The credential store of mcp-imap-server: CredentialManager             *)
(* (src/mcp_imap_server/credentials.py) over its two backends, the TOML   *)
(* config file and the OS keyring.  Every public method is one action;    *)
(* the outcome of each backend primitive during a call (success, backend  *)
(* error, failed file write) is an input of the action.                   *)
(***************************************************************************)
EXTENDS Naturals, Sequences, FiniteSets, TLC

\* ------------------------------------------------------------------ inputs

\* Account names the callers pass.
Names == {"work", "old"}

\* The default of add_imap_account's imap_port.
ImapPort == 993

\* The largest page_size the paginated tools accept.
MaxPageSize == 100

\* The page numbers asked for go up to MaxPage, the messages of a folder (or
\* the matches of a search) up to MaxEmails.
MaxPage == 2

MaxEmails == 1

\* A behaviour has at most this many calls during which a backend fails.
MaxFaults == 1

\* ---------------------------------------------------------- python values

\* @dataclass AccountCredentials
AccountCredentials(username, password, server) ==
    [username |-> username, password |-> password, server |-> server]

NoArgs == AccountCredentials("", "", "")

\* The (username, password, server) triples the callers pass to add_account.
AddInputs ==
    {AccountCredentials("alice", "s3cr3t", "imap.example.com"),
     AccountCredentials("bob", "plain", "imap.x.com"),
     AccountCredentials("alice", "plain", "imap.x.com")}

\* An insertion-ordered dict (a Python dict, a tomlkit table): a sequence of
\* [key, value] items without repeated keys.
EmptyDict == <<>>

DictHas(d, k) == \E i \in 1..Len(d) : d[i].key = k

DictGet(d, k) == d[CHOOSE i \in 1..Len(d) : d[i].key = k].value

\* Mutant of DictSet: the item is appended even when the key is present.
DictSet_append(d, k, v) == Append(d, [key |-> k, value |-> v])

\* d[k] = v: an existing key keeps its position, a new key goes last.
DictSet(d, k, v) ==
    IF DictHas(d, k)
    THEN [i \in 1..Len(d) |-> IF d[i].key = k THEN [key |-> k, value |-> v] ELSE d[i]]
    ELSE Append(d, [key |-> k, value |-> v])

\* del d[k]
DictDel(d, k) == SelectSeq(d, LAMBDA item : item.key # k)

\* list(d.keys())
DictKeys(d) == [i \in 1..Len(d) |-> d[i].key]

\* Mutant of DelField: the field is not deleted.
DelField_noop(r, field) == r

\* del account_data["password"]: the other fields stay.
DelField(r, field) == [x \in DOMAIN r \ {field} |-> r[x]]

\* The exception classes of credentials.py, and "Exception" for an error of
\* a backend that reaches the caller as it was raised.  All of them derive
\* from Exception, so `except Exception` catches each.
CredentialErrors ==
    {"KeyringStorageError", "ConfigSaveError", "PasswordNotFoundError",
     "KeyringRetrievalError"}

IsException(e) == e \in CredentialErrors \cup {"Exception", "PasswordDeleteError"}

\* --------------------------------------------------------------- backends

\* The parsed config document: a dict with at most the key "accounts".
EmptyConfig == [x \in {} |-> EmptyDict]

HasAccounts(config) == "accounts" \in DOMAIN config

\* The config file: absent, or holding text that parses to `doc`, or holding
\* text that does not parse (doc is then what the text was meant to hold).
NoFile == [exists |-> FALSE, parses |-> TRUE, doc |-> EmptyConfig]

FileOf(config) == [exists |-> TRUE, parses |-> TRUE, doc |-> config]

\* What the backends do during one call: keyring.set_password,
\* keyring.get_password and keyring.delete_password work or raise a backend
\* error; the file write works, or fails before the file is opened (mkdir,
\* open), or fails after open(..., "w") has truncated it (dump).
Faults ==
    [set : {"ok", "error"}, get : {"ok", "error"}, del : {"ok", "error"},
     write : {"ok", "open_fails", "dump_fails"}]

NoFault == [set |-> "ok", get |-> "ok", del |-> "ok", write |-> "ok"]

\* The fault plans that can matter to each operation: it stops at the first
\* call that raises, except that add_account goes on to its rollback delete
\* and remove_account goes on after a failed delete.
AddFaults ==
    {o \in Faults : /\ o.get = "ok"
                    /\ o.set = "error" => o.write = "ok"
                    /\ o.write = "ok" => o.del = "ok"}

GetFaults ==
    {o \in Faults : /\ o.del = "ok"
                    /\ o.get = "error" => o.set = "ok" /\ o.write = "ok"
                    /\ o.set = "error" => o.write = "ok"}

RemoveFaults == {o \in Faults : o.get = "ok" /\ o.set = "ok"}

\* Mutant of _read_config: the file is not read; the manager answers from
\* the empty document it would have held since before the file existed.
_read_config_stale(f) == EmptyConfig

\* CredentialManager._read_config
_read_config(f) ==
    IF ~f.exists THEN EmptyConfig
    ELSE IF f.parses THEN f.doc
    ELSE EmptyConfig

\* Mutant of _write_config: the document is merged into the one on disk
\* instead of replacing it.
_write_config_merge(f, config, w) ==
    LET disk == IF f.exists /\ f.parses THEN f.doc ELSE EmptyConfig
        Merged[i \in 0..Len(config.accounts)] ==
            IF i = 0
            THEN IF HasAccounts(disk) THEN disk.accounts ELSE EmptyDict
            ELSE DictSet(Merged[i - 1], config.accounts[i].key,
                         config.accounts[i].value)
    IN  CASE w = "ok" -> IF HasAccounts(config)
                         THEN FileOf([accounts |-> Merged[Len(config.accounts)]])
                         ELSE FileOf(config)
          [] w = "open_fails" -> f
          [] w = "dump_fails" -> FileOf(EmptyConfig)

\* CredentialManager._write_config: the file after the call.
_write_config(f, config, w) ==
    CASE w = "ok" -> FileOf(config)
      [] w = "open_fails" -> f
      [] w = "dump_fails" -> FileOf(EmptyConfig)

\* Mutant of _get_keyring_key: the key leaves the account name out.
_get_keyring_key_shared(account_name) == "account:"

\* CredentialManager._get_keyring_key
_get_keyring_key(account_name) == "account:" \o account_name

\* The keyring of service "mcp-imap-server": key -> password.
EmptyKeyring == [x \in {} |-> ""]

set_password(k, key, password) ==
    [x \in DOMAIN k \cup {key} |-> IF x = key THEN password ELSE k[x]]

delete_password(k, key) == [x \in DOMAIN k \ {key} |-> k[x]]

\* -------------------------------------------------------------- operations

\* What a call leaves behind: the stores, what it returned or raised, and
\* the backend calls it made, in order.
Outcome(f, k, ret, raised, creds, names, calls) ==
    [file |-> f, keyring |-> k, ret |-> ret, raised |-> raised,
     creds |-> creds, names |-> names, calls |-> calls]

Raise(f, k, e, calls) == Outcome(f, k, "raise", e, <<>>, <<>>, calls)

Return(f, k, ret, calls) == Outcome(f, k, ret, "", <<>>, <<>>, calls)

\* Mutant of _migrate_plaintext_password: nothing is stored.
_migrate_plaintext_password_skip(k, name, password, o) ==
    [keyring |-> k, raised |-> ""]

\* CredentialManager._migrate_plaintext_password: the keyring after the
\* call, and what it raised.
_migrate_plaintext_password(k, name, password, o) ==
    IF o.set = "error"
    THEN [keyring |-> k, raised |-> "KeyringStorageError"]
    ELSE [keyring |-> set_password(k, _get_keyring_key(name), password),
          raised |-> ""]

\* Mutant of add_account: no rollback delete after a failed config write.
add_account_noRollback(f, k, name, username, password, server, o) ==
    LET key == _get_keyring_key(name)
        k1 == set_password(k, key, password)
        config == _read_config(f)
        c1 == IF ~HasAccounts(config) THEN [accounts |-> EmptyDict] ELSE config
        c2 == [accounts |-> DictSet(c1.accounts, name,
                                    [username |-> username, server |-> server])]
    IN  IF o.set = "error"
        THEN Raise(f, k, "KeyringStorageError", <<"set_password">>)
        ELSE IF o.write = "ok"
        THEN Return(_write_config(f, c2, o.write), k1, "None",
                    <<"set_password", "read", "write">>)
        ELSE Raise(_write_config(f, c2, o.write), k1, "ConfigSaveError",
                   <<"set_password", "read", "write", "delete_password">>)

\* Mutant of add_account: an existing record is updated field by field, so
\* that a password field it carries stays.
add_account_update(f, k, name, username, password, server, o) ==
    LET key == _get_keyring_key(name)
        k1 == set_password(k, key, password)
        config == _read_config(f)
        c1 == IF ~HasAccounts(config) THEN [accounts |-> EmptyDict] ELSE config
        c2 == [accounts |->
                 DictSet(c1.accounts, name,
                         IF DictHas(c1.accounts, name)
                         THEN [DictGet(c1.accounts, name) EXCEPT
                                 !.username = username, !.server = server]
                         ELSE [username |-> username, server |-> server])]
    IN  IF o.set = "error"
        THEN Raise(f, k, "KeyringStorageError", <<"set_password">>)
        ELSE IF o.write = "ok"
        THEN Return(_write_config(f, c2, o.write), k1, "None",
                    <<"set_password", "read", "write">>)
        ELSE Raise(_write_config(f, c2, o.write),
                   IF o.del = "ok" THEN delete_password(k1, key) ELSE k1,
                   "ConfigSaveError",
                   <<"set_password", "read", "write", "delete_password">>)

\* Mutant of add_account: the record is written with the password inline.
add_account_inline(f, k, name, username, password, server, o) ==
    LET key == _get_keyring_key(name)
        k1 == set_password(k, key, password)
        config == _read_config(f)
        c1 == IF ~HasAccounts(config) THEN [accounts |-> EmptyDict] ELSE config
        c2 == [accounts |-> DictSet(c1.accounts, name,
                                    [username |-> username, server |-> server,
                                     password |-> password])]
    IN  IF o.set = "error"
        THEN Raise(f, k, "KeyringStorageError", <<"set_password">>)
        ELSE IF o.write = "ok"
        THEN Return(_write_config(f, c2, o.write), k1, "None",
                    <<"set_password", "read", "write">>)
        ELSE Raise(_write_config(f, c2, o.write),
                   IF o.del = "ok" THEN delete_password(k1, key) ELSE k1,
                   "ConfigSaveError",
                   <<"set_password", "read", "write", "delete_password">>)

\* Mutant of add_account: the record is written before the Secret.
add_account_configFirst(f, k, name, username, password, server, o) ==
    LET key == _get_keyring_key(name)
        config == _read_config(f)
        c1 == IF ~HasAccounts(config) THEN [accounts |-> EmptyDict] ELSE config
        c2 == [accounts |-> DictSet(c1.accounts, name,
                                    [username |-> username, server |-> server])]
    IN  IF o.write # "ok"
        THEN Raise(_write_config(f, c2, o.write), k, "ConfigSaveError",
                   <<"read", "write">>)
        ELSE IF o.set = "error"
        THEN Raise(_write_config(f, c2, o.write), k, "KeyringStorageError",
                   <<"read", "write", "set_password">>)
        ELSE Return(_write_config(f, c2, o.write), set_password(k, key, password),
                    "None", <<"read", "write", "set_password">>)

\* CredentialManager.add_account
add_account(f, k, name, username, password, server, o) ==
    LET key == _get_keyring_key(name)
        k1 == set_password(k, key, password)
        config == _read_config(f)
        c1 == IF ~HasAccounts(config) THEN [accounts |-> EmptyDict] ELSE config
        c2 == [accounts |-> DictSet(c1.accounts, name,
                                    [username |-> username, server |-> server])]
    IN  IF o.set = "error"
        THEN Raise(f, k, "KeyringStorageError", <<"set_password">>)
        ELSE IF o.write = "ok"
        THEN Return(_write_config(f, c2, o.write), k1, "None",
                    <<"set_password", "read", "write">>)
        ELSE Raise(_write_config(f, c2, o.write),
                   IF o.del = "ok" THEN delete_password(k1, key) ELSE k1,
                   "ConfigSaveError",
                   <<"set_password", "read", "write", "delete_password">>)

\* CredentialManager.get_account
get_account(f, k, name, o) ==
    LET key == _get_keyring_key(name)
        config == _read_config(f)
    IN  IF ~HasAccounts(config) \/ ~DictHas(config.accounts, name)
        THEN Return(f, k, "None", <<"read">>)
        ELSE
        LET account_data == DictGet(config.accounts, name)
        IN  IF "password" \in DOMAIN account_data
            THEN
            LET plaintext_password == account_data.password
                c1 == [accounts |-> DictSet(config.accounts, name,
                                            DelField(account_data, "password"))]
                migrated == _migrate_plaintext_password(k, name, plaintext_password, o)
                k1 == migrated.keyring
            IN  IF migrated.raised # ""
                THEN Raise(f, k, migrated.raised, <<"read", "set_password">>)
                ELSE IF o.write # "ok"
                THEN Raise(_write_config(f, c1, o.write), k1, "Exception",
                           <<"read", "set_password", "write">>)
                ELSE Outcome(_write_config(f, c1, o.write), k1,
                             "AccountCredentials", "",
                             <<AccountCredentials(account_data.username,
                                                  plaintext_password,
                                                  account_data.server)>>,
                             <<>>, <<"read", "set_password", "write">>)
            ELSE
            \* The try block: get_password raises, or returns None and
            \* _raise_password_not_found raises, or returns the password.
            LET inner == IF o.get = "error" THEN "Exception"
                         ELSE IF key \notin DOMAIN k THEN "PasswordNotFoundError"
                         ELSE ""
            IN  IF inner # "" /\ IsException(inner)
                THEN Raise(f, k, "KeyringRetrievalError", <<"read", "get_password">>)
                ELSE IF inner # ""
                THEN Raise(f, k, inner, <<"read", "get_password">>)
                ELSE Outcome(f, k, "AccountCredentials", "",
                             <<AccountCredentials(account_data.username, k[key],
                                                  account_data.server)>>,
                             <<>>, <<"read", "get_password">>)

\* Mutant of list_accounts: the document read is written back.
list_accounts_rewrite(f, k) ==
    LET config == _read_config(f)
    IN  Outcome(FileOf(config), k, "list", "", <<>>,
                IF ~HasAccounts(config) THEN <<>> ELSE DictKeys(config.accounts),
                <<"read", "write">>)

\* CredentialManager.list_accounts
list_accounts(f, k) ==
    LET config == _read_config(f)
    IN  Outcome(f, k, "list", "", <<>>,
                IF ~HasAccounts(config) THEN <<>> ELSE DictKeys(config.accounts),
                <<"read">>)

\* Mutant of remove_account: the config document is not written back.
remove_account_noWrite(f, k, name, o) ==
    LET key == _get_keyring_key(name)
        config == _read_config(f)
    IN  IF ~HasAccounts(config) \/ ~DictHas(config.accounts, name)
        THEN Return(f, k, "False", <<"read">>)
        ELSE Return(f,
                    IF o.del = "error" \/ key \notin DOMAIN k THEN k
                    ELSE delete_password(k, key),
                    "True", <<"read", "delete_password">>)

\* Mutant of remove_account: the Secret is deleted before the record is
\* looked up.
remove_account_deleteFirst(f, k, name, o) ==
    LET key == _get_keyring_key(name)
        config == _read_config(f)
        k1 == IF o.del = "error" \/ key \notin DOMAIN k THEN k
              ELSE delete_password(k, key)
        calls == <<"delete_password", "read", "write">>
    IN  IF ~HasAccounts(config) \/ ~DictHas(config.accounts, name)
        THEN Return(f, k1, "False", <<"delete_password", "read">>)
        ELSE
        LET accounts1 == DictDel(config.accounts, name)
            c1 == IF accounts1 = EmptyDict THEN EmptyConfig
                  ELSE [accounts |-> accounts1]
        IN  IF o.write # "ok"
            THEN Raise(_write_config(f, c1, o.write), k1, "Exception", calls)
            ELSE Return(_write_config(f, c1, o.write), k1, "True", calls)

\* CredentialManager.get_keyring_info: the keys of the dict it returns;
\* keyring.get_keyring() works or raises.
get_keyring_info(f, k, works) ==
    Outcome(f, k, "dict", "", <<>>,
            IF works THEN <<"backend", "name", "priority">> ELSE <<"error">>,
            <<"get_keyring">>)

\* Mutant of remove_account: a backend error of the delete is raised to the
\* caller as a storage error.
remove_account_strict(f, k, name, o) ==
    LET key == _get_keyring_key(name)
        config == _read_config(f)
    IN  IF ~HasAccounts(config) \/ ~DictHas(config.accounts, name)
        THEN Return(f, k, "False", <<"read">>)
        ELSE IF o.del = "error"
        THEN Raise(f, k, "KeyringStorageError", <<"read", "delete_password">>)
        ELSE
        LET k1 == IF key \notin DOMAIN k THEN k ELSE delete_password(k, key)
            accounts1 == DictDel(config.accounts, name)
            c1 == IF accounts1 = EmptyDict THEN EmptyConfig
                  ELSE [accounts |-> accounts1]
            calls == <<"read", "delete_password", "write">>
        IN  IF o.write # "ok"
            THEN Raise(_write_config(f, c1, o.write), k1, "Exception", calls)
            ELSE Return(_write_config(f, c1, o.write), k1, "True", calls)

\* CredentialManager.remove_account
remove_account(f, k, name, o) ==
    LET key == _get_keyring_key(name)
        config == _read_config(f)
    IN  IF ~HasAccounts(config) \/ ~DictHas(config.accounts, name)
        THEN Return(f, k, "False", <<"read">>)
        ELSE
        LET \* delete_password: a backend error is printed as a warning, an
            \* absent entry raises PasswordDeleteError, which is passed over.
            k1 == IF o.del = "error" THEN k
                  ELSE IF key \notin DOMAIN k THEN k
                  ELSE delete_password(k, key)
            accounts1 == DictDel(config.accounts, name)
            c1 == IF accounts1 = EmptyDict THEN EmptyConfig
                  ELSE [accounts |-> accounts1]
            calls == IF o.del = "error"
                     THEN <<"read", "delete_password", "print", "write">>
                     ELSE <<"read", "delete_password", "write">>
        IN  IF o.write # "ok"
            THEN Raise(_write_config(f, c1, o.write), k1, "Exception", calls)
            ELSE Return(_write_config(f, c1, o.write), k1, "True", calls)

\* ------------------------------------------------------------------- state

VARIABLES
    config_file,  \* the file at CredentialManager.config_file
    keyring,      \* the entries of keyring service "mcp-imap-server"
    last,         \* the last call: operation, arguments, faults, outcome
    before,       \* the two stores as they were when the last call began
    hist,         \* history: whether every call so far ran without fault,
                  \* the credentials last added per name, the names live
    callers,      \* concurrent callers of add_account: where each one is in
                  \* the method and the document it holds in memory
    writers,      \* the callers in the order their _write_config completed
    state,        \* the server session's ImapState
    tool          \* the last tool call of the session and the state before it

vars == <<config_file, keyring, last, before, hist, callers, writers, state, tool>>

\* ----------------------------------------------------------------- initial

\* Records an installation can hold before the first call: one written by a
\* version that stored the password inline, one written by add_account.
SeedRecords ==
    {[username |-> "bob", server |-> "imap.x.com", password |-> "plain"],
     [username |-> "alice", server |-> "imap.example.com"]}

SeedSections ==
    {s \in UNION {[1..n -> [key : Names, value : SeedRecords]] :
                    n \in 0..Cardinality(Names)} :
        \A i, j \in 1..Len(s) : s[i].key = s[j].key => i = j}

SeedConfigs == {EmptyConfig} \cup {[accounts |-> s] : s \in SeedSections}

SeedFiles ==
    {NoFile} \cup {FileOf(c) : c \in SeedConfigs}
    \cup {[exists |-> TRUE, parses |-> FALSE, doc |-> c] :
            c \in {c \in SeedConfigs : HasAccounts(c) /\ Len(c.accounts) = 1}}

SeedKeyrings ==
    {[x \in {_get_keyring_key(n) : n \in S} |-> "s3cr3t"] : S \in SUBSET Names}

NoCall ==
    [op |-> "", name |-> "", args |-> NoArgs, fault |-> NoFault,
     out |-> Return(NoFile, EmptyKeyring, "None", <<>>)]

Stores == [file |-> config_file, keyring |-> keyring]

\* The names list_accounts reports for a file.
Listed(f) == {list_accounts(f, EmptyKeyring).names[i] :
                i \in 1..Len(list_accounts(f, EmptyKeyring).names)}

\* Two callers (threads or processes) share the config file and the keyring.
Callers == {"c1", "c2"}

\* A caller that has not called add_account yet.
Idle == [pc |-> "idle", op |-> "", name |-> "", args |-> NoArgs,
         config |-> EmptyConfig, seen |-> 0]

\* state.mailbox is None, or a MailBox: whether its login succeeded and the
\* folder it has selected.
None == [present |-> FALSE, logged_in |-> FALSE, folder |-> ""]

MailBox(logged_in, folder) ==
    [present |-> TRUE, logged_in |-> logged_in, folder |-> folder]

\* @dataclass ImapState: mailbox = None
ImapState == [mailbox |-> None]

NoTool == [name |-> "", ret |-> "", raised |-> "", before |-> ImapState,
           folder_name |-> ""]

NoneAdded == [n \in Names |-> <<>>]

Init ==
    /\ config_file \in SeedFiles
    /\ keyring \in SeedKeyrings
    /\ last = NoCall
    /\ before = Stores
    /\ hist = [clean |-> config_file.parses, faults |-> 0, added |-> NoneAdded,
               migrated |-> NoneAdded,
               live |-> IF config_file.parses THEN Listed(config_file) ELSE {}]
    /\ callers = [c \in Callers |-> Idle]
    /\ writers = <<>>
    /\ state = ImapState
    /\ tool = NoTool

\* ----------------------------------------------------------------- actions

\* A fault plan names a failure only for a backend call the operation makes.
Effective(o, out) ==
    /\ o.set # "ok" => \E i \in 1..Len(out.calls) : out.calls[i] = "set_password"
    /\ o.get # "ok" => \E i \in 1..Len(out.calls) : out.calls[i] = "get_password"
    /\ o.del # "ok" => \E i \in 1..Len(out.calls) : out.calls[i] = "delete_password"
    /\ o.write # "ok" => \E i \in 1..Len(out.calls) : out.calls[i] = "write"

\* The calls with a failing backend are counted up to MaxFaults.
WithinBudget(o) == o = NoFault \/ hist.faults < MaxFaults

\* One call of a public method: the stores change as the operation says and
\* the call is recorded.
Call(op, name, args, o, out, h) ==
    /\ Effective(o, out)
    /\ config_file' = out.file
    /\ keyring' = out.keyring
    /\ last' = [op |-> op, name |-> name, args |-> args, fault |-> o,
                out |-> [out EXCEPT !.file = NoFile, !.keyring = EmptyKeyring]]
    /\ before' = Stores
    /\ hist' = LET clean == hist.clean /\ o = NoFault
               IN  [clean |-> clean,
                    faults |-> IF o = NoFault THEN hist.faults ELSE hist.faults + 1,
                    added |-> IF clean THEN h.added ELSE NoneAdded,
                    migrated |-> IF o = NoFault THEN h.migrated ELSE NoneAdded,
                    live |-> IF clean THEN h.live ELSE {}]
    /\ UNCHANGED <<callers, writers, state, tool>>

\* The record of `name` in the file, as a sequence of none or one.
RecordOf(f, name) ==
    LET config == _read_config(f)
    IN  IF HasAccounts(config) /\ DictHas(config.accounts, name)
        THEN <<DictGet(config.accounts, name)>>
        ELSE <<>>

IsLegacy(f, name) ==
    RecordOf(f, name) # <<>> /\ "password" \in DOMAIN RecordOf(f, name)[1]

AddAccount ==
    \E name \in Names, args \in AddInputs, o \in AddFaults :
        /\ WithinBudget(o)
        /\ Call("add_account", name, args, o,
                add_account(config_file, keyring, name, args.username,
                            args.password, args.server, o),
                [hist EXCEPT !.added[name] = <<args>>, !.migrated[name] = <<>>,
                             !.live = @ \cup {name}])

GetAccount ==
    \E name \in Names, o \in GetFaults :
        LET out == get_account(config_file, keyring, name, o)
        IN  /\ WithinBudget(o)
            /\ Call("get_account", name, NoArgs, o, out,
                    IF IsLegacy(config_file, name) /\ out.ret = "AccountCredentials"
                    THEN [hist EXCEPT !.migrated[name] = out.creds]
                    ELSE hist)

ListAccounts ==
    /\ WithinBudget(NoFault)
    /\ Call("list_accounts", "", NoArgs, NoFault,
            list_accounts(config_file, keyring), hist)

RemoveAccount ==
    \E name \in Names, o \in RemoveFaults :
        /\ WithinBudget(o)
        /\ Call("remove_account", name, NoArgs, o,
                remove_account(config_file, keyring, name, o),
                [hist EXCEPT !.added[name] = <<>>, !.migrated[name] = <<>>,
                             !.live = @ \ {name}])

GetKeyringInfo ==
    \E works \in BOOLEAN :
        /\ WithinBudget(NoFault)
        /\ Call("get_keyring_info", "", NoArgs, NoFault,
                get_keyring_info(config_file, keyring, works), hist)

Next ==
    \/ AddAccount
    \/ GetAccount
    \/ ListAccounts
    \/ RemoveAccount
    \/ GetKeyringInfo

Spec == Init /\ [][Next]_vars

\* ------------------------------------------------------- the migrate command

\* The loop of cli.migrate over accounts_to_migrate: get_account on each
\* name, under the fault plan of that name; an exception is printed and the
\* loop goes on.  acc carries the stores, the count and the outcome of each
\* get_account so far.
RECURSIVE MigrateLoop(_, _, _)
MigrateLoop(todo, plan, acc) ==
    IF todo = <<>> THEN acc
    ELSE LET account_name == Head(todo)
             got == get_account(acc.file, acc.keyring, account_name,
                                plan[account_name])
         IN  MigrateLoop(Tail(todo), plan,
                [file |-> got.file,
                 keyring |-> got.keyring,
                 migrated |-> IF got.raised = "" THEN acc.migrated + 1
                              ELSE acc.migrated,
                 results |-> Append(acc.results,
                                [name |-> account_name, ret |-> got.ret,
                                 raised |-> got.raised, creds |-> got.creds,
                                 calls |-> got.calls]),
                 calls |-> acc.calls \o got.calls])

\* accounts_to_migrate: the names of the document whose record carries a
\* password field, in document order.
AccountsToMigrate(config) ==
    IF ~HasAccounts(config) THEN <<>>
    ELSE DictKeys(SelectSeq(config.accounts,
                            LAMBDA item : "password" \in DOMAIN item.value))

\* cli.migrate: what the command leaves behind and reports.
migrate(f, k, confirm, plan) ==
    LET config == _read_config(f)
        accounts_to_migrate == AccountsToMigrate(config)
        start == [file |-> f, keyring |-> k, migrated |-> 0, results |-> <<>>,
                  calls |-> <<"read">>]
        done == MigrateLoop(accounts_to_migrate, plan, start)
        Report(ret, end) ==
            [file |-> end.file, keyring |-> end.keyring, ret |-> ret,
             raised |-> "", creds |-> <<>>, names |-> accounts_to_migrate,
             calls |-> end.calls, migrated |-> end.migrated,
             results |-> end.results, plan |-> plan]
    IN  IF ~HasAccounts(config) THEN Report("no accounts", start)
        ELSE IF accounts_to_migrate = <<>> THEN Report("nothing to migrate", start)
        ELSE IF ~confirm THEN Report("cancelled", start)
        ELSE Report("completed", done)

\* A plan names a fault only for a get_account the command makes and that
\* meets it; the answer to the prompt matters only when the command asks.
EffectivePlan(confirm, plan, out) ==
    /\ out.ret # "completed" => \A n \in Names : plan[n] = NoFault
    /\ out.ret \in {"no accounts", "nothing to migrate"} => confirm
    /\ \A n \in Names :
          plan[n] # NoFault =>
              \E i \in 1..Len(out.results) :
                  /\ out.results[i].name = n
                  /\ Effective(plan[n], out.results[i])

Migrate ==
    \E confirm \in BOOLEAN, plan \in [Names -> GetFaults] :
        LET out == migrate(config_file, keyring, confirm, plan)
            o == IF \A n \in Names : plan[n] = NoFault THEN NoFault
                 ELSE plan[CHOOSE n \in Names : plan[n] # NoFault]
        IN  /\ WithinBudget(o)
            /\ EffectivePlan(confirm, plan, out)
            /\ Call("migrate", "", NoArgs, o, out,
                    [hist EXCEPT !.migrated =
                        [n \in Names |->
                            IF \E i \in 1..Len(out.results) :
                                  /\ out.results[i].name = n
                                  /\ out.results[i].ret = "AccountCredentials"
                            THEN out.results[CHOOSE i \in 1..Len(out.results) :
                                                out.results[i].name = n].creds
                            ELSE hist.migrated[n]]])

NextMigrate == Next \/ Migrate

\* The calls of the credential manager together with the migrate command.
SpecMigrate == Init /\ [][NextMigrate]_vars

\* ------------------------------------------------------- the account commands

\* `sub in s` of two Python strings.
Contains(s, sub) ==
    \E i \in 1..(Len(s) - Len(sub) + 1) : SubSeq(s, i, i + Len(sub) - 1) = sub

\* What the IMAP server and the network do during a connection test: the
\* exception imaplib raises, if any, and its text.
Connections ==
    {[raises |-> "", text |-> ""],
     [raises |-> "IMAP4.error", text |-> "Login Failed"],
     [raises |-> "IMAP4.error",
      text |-> "b'[AUTHENTICATIONFAILED] Invalid credentials (Failure)'"],
     [raises |-> "SSLError", text |-> "certificate verify failed"],
     [raises |-> "OSError", text |-> "[Errno 111] Connection refused"],
     [raises |-> "Exception", text |-> "port must be 0-65535"]}

\* cli.commands.test_imap_connection: a dict after a connection that
\* worked, the message built from the exception otherwise.
test_imap_connection(conn) ==
    CASE conn.raises = "" -> [isstr |-> FALSE, text |-> "Connection test successful"]
      [] conn.raises = "IMAP4.error" ->
            [isstr |-> TRUE, text |-> "IMAP connection failed: " \o conn.text]
      [] conn.raises = "SSLError" ->
            [isstr |-> TRUE, text |-> "SSL connection failed: " \o conn.text]
      [] conn.raises = "OSError" ->
            [isstr |-> TRUE, text |-> "Network connection failed: " \o conn.text]
      [] OTHER -> [isstr |-> TRUE, text |-> "Connection test failed: " \o conn.text]

\* f"{imap_server}:{imap_port}:{use_ssl}"
ServerString(imap_server, imap_port, use_ssl) ==
    imap_server \o ":" \o ToString(imap_port) \o ":"
        \o (IF use_ssl THEN "True" ELSE "False")

\* cli.commands.add_imap_account: the stores it leaves, the message or the
\* dict it returns, and the connection test's result.
add_imap_account(f, k, email, password, imap_server, imap_port, use_ssl, conn, o) ==
    LET connection_test == test_imap_connection(conn)
        server == ServerString(imap_server, imap_port, use_ssl)
        added == add_account(f, k, email, email, password, server, o)
        Result(file, kr, ret, text, calls) ==
            [file |-> file, keyring |-> kr, ret |-> ret, raised |-> "",
             creds |-> <<>>, names |-> <<>>, calls |-> calls, text |-> text,
             connection_test |-> connection_test]
    IN  IF connection_test.isstr /\ Contains(connection_test.text, "Failed")
        THEN Result(f, k, "str", "Connection test failed: " \o connection_test.text,
                    <<>>)
        ELSE IF added.raised # ""
        THEN Result(added.file, added.keyring, "str",
                    "Failed to add IMAP account: ", added.calls)
        ELSE Result(added.file, added.keyring, "dict",
                    "Successfully added IMAP account for " \o email, added.calls)

AddImapAccount ==
    \E email \in Names, args \in {a \in AddInputs : a.password = "s3cr3t"},
       conn \in Connections, o \in AddFaults :
        LET out == add_imap_account(config_file, keyring, email, args.password,
                                    args.server, ImapPort, TRUE, conn, o)
            saved == AccountCredentials(email, args.password,
                                        ServerString(args.server, ImapPort, TRUE))
        IN  /\ WithinBudget(o)
            /\ Call("add_imap_account", email, saved, o, out,
                    IF out.calls = <<>> THEN hist
                    ELSE [hist EXCEPT !.added[email] = <<saved>>,
                                      !.migrated[email] = <<>>,
                                      !.live = @ \cup {email}])

\* cli.remove: get_account to look the account up, list_accounts when it gave
\* none, the prompt unless --force, then remove_account.  Every exception
\* ends the command with exit code 1; `warned` tells whether the "password
\* not found in keyring" warning was printed.
remove(f, k, name, force, confirm, og, orm) ==
    LET got == get_account(f, k, name, og)
        existing == IF got.raised = "" THEN got.creds ELSE <<>>
        listed == list_accounts(got.file, got.keyring).names
        removed == remove_account(got.file, got.keyring, name, orm)
        Result(file, kr, ret, code, warned, calls, rcalls) ==
            [file |-> file, keyring |-> kr, ret |-> ret, raised |-> "",
             creds |-> existing, names |-> <<>>, calls |-> calls \o rcalls,
             exit |-> code, warned |-> warned, get |-> got.calls,
             remove |-> rcalls]
        Rest(warned) ==
            IF existing = <<>> /\ ~\E i \in 1..Len(listed) : listed[i] = name
            THEN Result(got.file, got.keyring, "not found", 1, warned,
                        got.calls \o <<"read">>, <<>>)
            ELSE IF ~force /\ ~confirm
            THEN Result(got.file, got.keyring, "cancelled", 0, warned, got.calls, <<>>)
            ELSE IF removed.raised # ""
            THEN Result(removed.file, removed.keyring, "error", 1, warned,
                        got.calls, removed.calls)
            ELSE IF removed.ret = "True"
            THEN Result(removed.file, removed.keyring, "removed", 0, warned,
                        got.calls, removed.calls)
            ELSE Result(removed.file, removed.keyring, "failed", 1, warned,
                        got.calls, removed.calls)
    IN  IF got.raised = "PasswordNotFoundError" THEN Rest(TRUE)
        ELSE IF got.raised \in CredentialErrors
        THEN Result(got.file, got.keyring, "credential error", 1, FALSE, got.calls, <<>>)
        ELSE IF got.raised # ""
        THEN Result(got.file, got.keyring, "error", 1, FALSE, got.calls, <<>>)
        ELSE Rest(FALSE)

\* The command's options and answers that matter, and at most one of its
\* two calls meets a failing backend.
CliRemove ==
    \E name \in Names, force \in BOOLEAN, confirm \in BOOLEAN,
       og \in GetFaults, orm \in RemoveFaults :
        LET out == remove(config_file, keyring, name, force, confirm, og, orm)
            o == IF og # NoFault THEN og ELSE orm
        IN  /\ WithinBudget(o)
            /\ og = NoFault \/ orm = NoFault
            /\ force => confirm
            /\ Effective(og, [calls |-> out.get])
            /\ Effective(orm, [calls |-> out.remove])
            /\ Call("remove", name, NoArgs, o, out,
                    IF out.ret = "removed"
                    THEN [hist EXCEPT !.added[name] = <<>>, !.migrated[name] = <<>>,
                                      !.live = @ \ {name}]
                    ELSE IF IsLegacy(config_file, name) /\ out.creds # <<>>
                    THEN [hist EXCEPT !.migrated[name] = out.creds]
                    ELSE hist)

NextCli == AddImapAccount \/ CliRemove

\* The two commands, run in any order on any installation.
SpecCli == Init /\ [][NextCli]_vars

\* ------------------------------------------------------ concurrent callers

\* add_account's update of the document it read: the accounts table is
\* created when missing and the record of `name` is set.
WithAccount(config, name, username, server) ==
    LET c1 == IF ~HasAccounts(config) THEN [accounts |-> EmptyDict] ELSE config
    IN  [accounts |-> DictSet(c1.accounts, name,
                              [username |-> username, server |-> server])]

\* add_account holds no lock, so another caller can run between its three
\* accesses of the stores. First the password goes into the keyring.
SetPasswordStep ==
    \E c \in Callers, name \in Names, args \in AddInputs :
        /\ callers[c].pc = "idle"
        /\ keyring' = set_password(keyring, _get_keyring_key(name), args.password)
        /\ callers' = [callers EXCEPT ![c] = [@ EXCEPT !.pc = "read",
                                                       !.op = "add_account",
                                                       !.name = name,
                                                       !.args = args]]
        /\ UNCHANGED <<config_file, last, before, hist, writers, state, tool>>

\* Then the document is read and updated in the caller's memory.
ReadConfigStep ==
    \E c \in Callers :
        /\ callers[c].pc = "read"
        /\ callers' = [callers EXCEPT ![c] =
                          [pc |-> "write", op |-> @.op, name |-> @.name,
                           args |-> @.args,
                           config |-> WithAccount(_read_config(config_file),
                                                  @.name, @.args.username,
                                                  @.args.server),
                           seen |-> Len(writers)]]
        /\ UNCHANGED <<config_file, keyring, last, before, hist, writers, state, tool>>

\* Last the caller's document replaces the file and the call returns None.
WriteConfigStep ==
    \E c \in Callers :
        /\ callers[c].pc = "write"
        /\ config_file' = _write_config(config_file, callers[c].config, "ok")
        /\ callers' = [callers EXCEPT ![c].pc = "done"]
        /\ writers' = Append(writers, c)
        /\ UNCHANGED <<keyring, last, before, hist, state, tool>>

NextConcurrent == SetPasswordStep \/ ReadConfigStep \/ WriteConfigStep

\* Two callers each run add_account once, their steps interleaved at will.
SpecConcurrent == Init /\ [][NextConcurrent]_vars

\* get_account and remove_account hold no lock either.  get_account reads
\* the document; without a record of the name it returns None, with a
\* migrated record it reads the keyring, and with a legacy record it goes on
\* to migrate.
GetReadStep ==
    \E c \in Callers, name \in Names :
        LET config == _read_config(config_file)
            known == HasAccounts(config) /\ DictHas(config.accounts, name)
        IN  /\ callers[c].pc = "idle"
            /\ callers' = [callers EXCEPT ![c] =
                   [pc |-> IF known /\ "password" \in DOMAIN DictGet(config.accounts, name)
                           THEN "migrate" ELSE "done",
                    op |-> "get_account", name |-> name, args |-> NoArgs,
                    config |-> config, seen |-> Len(writers)]]
            /\ UNCHANGED <<config_file, keyring, last, before, hist, writers, state, tool>>

\* The migration: the inline password goes into the keyring and is deleted
\* from the record of the document in memory, which is written next.
GetMigrateStep ==
    \E c \in Callers :
        LET name == callers[c].name
            config == callers[c].config
            account_data == DictGet(config.accounts, name)
            migrated == _migrate_plaintext_password(keyring, name,
                                                    account_data.password, NoFault)
        IN  /\ callers[c].pc = "migrate"
            /\ keyring' = migrated.keyring
            /\ callers' = [callers EXCEPT ![c] =
                   [@ EXCEPT !.pc = "write",
                             !.args = AccountCredentials(account_data.username,
                                                         account_data.password,
                                                         account_data.server),
                             !.config = [accounts |->
                                DictSet(config.accounts, name,
                                        DelField(account_data, "password"))]]]
            /\ UNCHANGED <<config_file, last, before, hist, writers, state, tool>>

\* remove_account reads the document and returns False without a record of
\* the name.
RemoveReadStep ==
    \E c \in Callers, name \in Names :
        LET config == _read_config(config_file)
            known == HasAccounts(config) /\ DictHas(config.accounts, name)
        IN  /\ callers[c].pc = "idle"
            /\ callers' = [callers EXCEPT ![c] =
                   [pc |-> IF known THEN "delete" ELSE "done",
                    op |-> "remove_account", name |-> name, args |-> NoArgs,
                    config |-> config, seen |-> Len(writers)]]
            /\ UNCHANGED <<config_file, keyring, last, before, hist, writers, state, tool>>

\* It deletes the Secret, if there is one, and the record of the document in
\* memory, which is written next.
RemoveDeleteStep ==
    \E c \in Callers :
        LET name == callers[c].name
            key == _get_keyring_key(name)
            accounts1 == DictDel(callers[c].config.accounts, name)
        IN  /\ callers[c].pc = "delete"
            /\ keyring' = IF key \in DOMAIN keyring THEN delete_password(keyring, key)
                           ELSE keyring
            /\ callers' = [callers EXCEPT ![c] =
                   [@ EXCEPT !.pc = "write",
                             !.config = IF accounts1 = EmptyDict THEN EmptyConfig
                                        ELSE [accounts |-> accounts1]]]
            /\ UNCHANGED <<config_file, last, before, hist, writers, state, tool>>

NextInterleaved ==
    \/ NextConcurrent
    \/ GetReadStep
    \/ GetMigrateStep
    \/ RemoveReadStep
    \/ RemoveDeleteStep

\* Two callers each run one of add_account, get_account and remove_account,
\* their steps interleaved at will.
SpecInterleaved == Init /\ [][NextInterleaved]_vars

\* ------------------------------------------------------ the server session

ImapErrors == {"IMAP4.error", "IMAP4.abort"}

ConnectionErrors == {"OSError", "SSLError"}

\* What MailBox(server) and mailbox.login(...) do during a login: both work,
\* or the constructor cannot connect, or the login raises.
LoginOutcomes ==
    {[stage |-> "", raises |-> ""],
     [stage |-> "connect", raises |-> "OSError"],
     [stage |-> "connect", raises |-> "SSLError"],
     [stage |-> "login", raises |-> "IMAP4.error"],
     [stage |-> "login", raises |-> "IMAP4.abort"],
     [stage |-> "login", raises |-> "MailboxLoginError"]}

\* What mailbox.logout() does: it works or raises.
LogoutOutcomes == {"", "IMAP4.error", "IMAP4.abort", "OSError", "MailboxLogoutError"}

\* The folders of the account on the server; login selects INBOX.
Folders == {"INBOX", "Archive"}

\* What a tool leaves behind: the session state, the message or dict it
\* returned (by its kind), or the exception that left it.
ToolResult(s, ret, raised) == [state |-> s, ret |-> ret, raised |-> raised]

\* server.auth login: state.mailbox is assigned after the login.
login(s, env) ==
    IF env.raises = ""
    THEN ToolResult([mailbox |-> MailBox(TRUE, "INBOX")], "Login successful.", "")
    ELSE IF env.raises \in ImapErrors THEN ToolResult(s, "Login failed", "")
    ELSE IF env.raises \in ConnectionErrors THEN ToolResult(s, "Connection failed", "")
    ELSE ToolResult(s, "raise", env.raises)

\* core.login: state.mailbox is assigned the new MailBox, then logged in;
\* no exception is caught.
core_login(s, env) ==
    IF env.stage = "connect" THEN ToolResult(s, "raise", env.raises)
    ELSE IF env.stage = "login"
    THEN ToolResult([mailbox |-> MailBox(FALSE, "")], "raise", env.raises)
    ELSE ToolResult([mailbox |-> MailBox(TRUE, "INBOX")], "Login successful.", "")

\* server.auth login_with_stored_account, given what get_account did: a
\* credential error leaves the tool, a failed file write is an OSError and
\* is reported as a failed connection.
login_with_stored_account(s, got, env) ==
    IF got.raised \in CredentialErrors THEN ToolResult(s, "raise", got.raised)
    ELSE IF got.raised # "" THEN ToolResult(s, "Connection failed", "")
    ELSE IF got.creds = <<>> THEN ToolResult(s, "not found", "")
    ELSE login(s, env)

\* server.auth logout
logout(s, env) ==
    IF ~s.mailbox.present
    THEN ToolResult(s, "Not logged in. Please login first.", "")
    ELSE IF env = "" THEN ToolResult([mailbox |-> None], "Logout successful.", "")
    ELSE IF env \in ImapErrors
    THEN ToolResult([mailbox |-> None], "Logout completed with warning", "")
    ELSE ToolResult(s, "raise", env)

\* state.get_mailbox: the logged-in check of the guarded tools.
get_mailbox(s) == IF ~s.mailbox.present THEN "NotLoggedInError" ELSE ""

\* server.folder.management select_folder; the server refuses a SELECT on a
\* connection that is not logged in.
select_folder(s, folder_name, env) ==
    IF get_mailbox(s) # "" THEN ToolResult(s, "raise", get_mailbox(s))
    ELSE IF env \in ImapErrors \/ ~s.mailbox.logged_in
    THEN ToolResult(s, "Failed to select folder", "")
    ELSE ToolResult([mailbox |-> MailBox(TRUE, folder_name)],
                    "Successfully selected folder", "")

\* One tool call of the session.
Tool(name, out, folder_name) ==
    /\ state' = out.state
    /\ tool' = [name |-> name, ret |-> out.ret, raised |-> out.raised,
                before |-> state, folder_name |-> folder_name]
    /\ UNCHANGED <<last, before, hist, callers, writers>>

Login ==
    \E env \in LoginOutcomes :
        /\ Tool("login", login(state, env), "")
        /\ UNCHANGED <<config_file, keyring>>

CoreLogin ==
    \E env \in LoginOutcomes :
        /\ Tool("core.login", core_login(state, env), "")
        /\ UNCHANGED <<config_file, keyring>>

LoginWithStoredAccount ==
    \E account_name \in Names, env \in LoginOutcomes, o \in GetFaults :
        LET got == get_account(config_file, keyring, account_name, o)
        IN  /\ Effective(o, got)
            /\ got.raised # "" \/ got.creds = <<>> => env.raises = ""
            /\ config_file' = got.file
            /\ keyring' = got.keyring
            /\ Tool("login_with_stored_account",
                    login_with_stored_account(state, got, env), "")

Logout ==
    \E env \in LogoutOutcomes :
        /\ ~state.mailbox.present => env = ""
        /\ Tool("logout", logout(state, env), "")
        /\ UNCHANGED <<config_file, keyring>>

SelectFolder ==
    \E folder_name \in Folders, env \in {"", "IMAP4.error"} :
        /\ ~(state.mailbox.present /\ state.mailbox.logged_in) => env = ""
        /\ Tool("select_folder", select_folder(state, folder_name, env), folder_name)
        /\ UNCHANGED <<config_file, keyring>>

\* A Python str, and the object state.mailbox.folder (the folder manager of
\* the mailbox, whose get() gives the selected folder): values of different
\* types, which are never equal.
Str(s) == [type |-> "str", val |-> s]

FolderManager == [type |-> "MailBoxFolderManager", val |-> ""]

\* bool(v): a str is true unless empty, an object is true.
Truthy(v) == v.type # "str" \/ v.val # ""

\* mailbox.folder.set(folder): the SELECT works or raises; what is not a
\* folder name cannot be encoded into a SELECT.
folder_set(mailbox, folder, fails) ==
    IF folder.type # "str" THEN [mailbox |-> mailbox, raises |-> "TypeError"]
    ELSE IF fails \/ ~mailbox.logged_in
    THEN [mailbox |-> mailbox, raises |-> "IMAP4.error"]
    ELSE [mailbox |-> MailBox(TRUE, folder.val), raises |-> ""]

\* get_state_or_error: the state, and the error message of a session that
\* is not logged in.
get_state_or_error(s) ==
    IF ~s.mailbox.present THEN "Not logged in. Please login first." ELSE ""

PaginatedTools ==
    {"get_emails_paginated", "search_emails_paginated",
     "get_emails_by_flag_paginated"}

\* get_emails_paginated, search_emails_paginated and
\* get_emails_by_flag_paginated: `total` messages are in the folder or match,
\* `env` names the IMAP call that raises, if any.  The by-flag tool checks
\* its flag first; get_emails_paginated alone fetches again after counting.
paginated(variant, s, page, page_size, folder_name, flag_ok, total, env) ==
    LET original_folder == FolderManager
        changes == Truthy(Str(folder_name)) /\ Str(folder_name) # original_folder
        selected == folder_set(s.mailbox, Str(folder_name), env = "set")
        folder_name1 == IF changes THEN Str(folder_name) ELSE original_folder
        mailbox1 == IF changes THEN selected.mailbox ELSE s.mailbox
        s1 == [mailbox |-> mailbox1]
        start_idx == (page - 1) * page_size
        restored == folder_set(mailbox1, original_folder, FALSE)
    IN  IF get_state_or_error(s) # "" THEN ToolResult(s, get_state_or_error(s), "")
        ELSE IF page < 1 THEN ToolResult(s, "Page number must be 1 or greater.", "")
        ELSE IF page_size < 1 \/ page_size > MaxPageSize
        THEN ToolResult(s, "Page size must be between 1 and 100.", "")
        ELSE IF variant = "get_emails_by_flag_paginated" /\ ~flag_ok
        THEN ToolResult(s, "Unknown flag", "")
        ELSE IF changes /\ selected.raises # ""
        THEN ToolResult(s, "Failed", "")
        ELSE IF env = "count" \/ ~mailbox1.logged_in THEN ToolResult(s1, "Failed", "")
        ELSE IF start_idx >= total THEN ToolResult(s1, "beyond", "")
        ELSE IF variant = "get_emails_paginated" /\ env = "fetch"
        THEN ToolResult(s1, "Failed", "")
        ELSE IF folder_name1 # original_folder
        THEN IF restored.raises \in ImapErrors
             THEN ToolResult([mailbox |-> restored.mailbox], "Failed", "")
             ELSE IF restored.raises # ""
             THEN ToolResult([mailbox |-> restored.mailbox], "raise", restored.raises)
             ELSE ToolResult([mailbox |-> restored.mailbox], "page", "")
        ELSE ToolResult(s1, "page", "")

GetEmailsPaginated ==
    \E variant \in PaginatedTools, page \in 0..MaxPage,
       page_size \in {0, 1, MaxPageSize + 1}, folder_name \in Folders \cup {""},
       flag_ok \in BOOLEAN, total \in 0..MaxEmails,
       env \in {"", "set", "count", "fetch"} :
        /\ flag_ok \/ variant = "get_emails_by_flag_paginated"
        \* The arguments checked later, and the IMAP calls, matter only to
        \* a call that gets past the earlier checks.
        /\ (page = 0 \/ page_size # 1 \/ ~flag_ok) => (total = 0 /\ env = "")
        /\ page = 0 => page_size = 1
        /\ env = "set" => folder_name # ""
        /\ env = "fetch" => variant = "get_emails_paginated"
        /\ Tool(variant,
                paginated(variant, state, page, page_size, folder_name, flag_ok,
                          total, env),
                folder_name)
        /\ UNCHANGED <<config_file, keyring>>

NextSession ==
    \/ Login
    \/ CoreLogin
    \/ LoginWithStoredAccount
    \/ Logout
    \/ SelectFolder
    \/ GetEmailsPaginated

\* The session starts on any config file, with the Secret of one account
\* in the keyring.
InitSession ==
    /\ Init
    /\ keyring = [x \in {_get_keyring_key("work")} |-> "s3cr3t"]

\* The tools of one server session, called in any order.
SpecSession == InitSession /\ [][NextSession]_vars

\* ---------------------------------------------------- claims' vocabulary

KeyOf(name) == _get_keyring_key(name)

\* The conceptual state of an account over the two stores.
AccountState(f, k, name) ==
    IF RecordOf(f, name) = <<>> THEN "Unknown"
    ELSE IF IsLegacy(f, name) THEN "LegacyPlaintext"
    ELSE IF KeyOf(name) \in DOMAIN k THEN "SecretPresent"
    ELSE "MetadataOnly"

\* The Secret of `name`, as a sequence of none or one.
SecretOf(k, name) == IF KeyOf(name) \in DOMAIN k THEN <<k[KeyOf(name)]>> ELSE <<>>

Called(op) == last.op = op

Returned == last.out.raised = ""

\* ------------------------------------------------------------------ claims

\* C1: once add_account(name, u, p, s) has returned, and after any further
\* calls that ran without fault on other names (and get/list calls),
\* get_account(name) returns exactly AccountCredentials(u, p, s).
C1_RoundTrip ==
    (Called("get_account") /\ hist.clean /\ hist.added[last.name] # <<>>)
        => /\ last.out.ret = "AccountCredentials"
           /\ last.out.creds = hist.added[last.name]

\* C1 witness: get_account has returned the added credentials of one account
\* while another account had been added as well.
C1_Witness ==
    /\ Called("get_account") /\ hist.clean
    /\ hist.added[last.name] # <<>>
    /\ last.out.creds = hist.added[last.name]
    /\ \E m \in Names \ {last.name} :
          hist.added[m] # <<>> /\ hist.added[m] # hist.added[last.name]

\* C2: a failed add_account never leaves an AccountRecord whose Secret
\* cannot be fetched because of that call: an account that was not
\* MetadataOnly before the call is not MetadataOnly after it has raised (it
\* is SecretPresent after it has returned).
C2_FailedAddKeepsSecret ==
    Called("add_account") =>
        IF Returned
        THEN AccountState(config_file, keyring, last.name) = "SecretPresent"
        ELSE \/ AccountState(config_file, keyring, last.name) # "MetadataOnly"
             \/ AccountState(before.file, before.keyring, last.name) = "MetadataOnly"

\* C3: when the config write of add_account fails for a name without record,
\* the call deletes the Secret it wrote as its last backend call, raises
\* ConfigSaveError whether or not that delete works, the name is not listed
\* afterwards, and after a delete that worked no Secret is left under its key.
C3_Rollback ==
    (/\ Called("add_account")
     /\ last.fault.set = "ok" /\ last.fault.write # "ok"
     /\ RecordOf(before.file, last.name) = <<>>)
        => /\ last.out.calls = <<"set_password", "read", "write", "delete_password">>
           /\ last.out.raised = "ConfigSaveError"
           /\ last.name \notin Listed(config_file)
           /\ last.fault.del = "ok" => SecretOf(keyring, last.name) = <<>>

\* C3 witness: a failed config write for a new name whose rollback delete
\* removed the Secret, on a store that holds another account.
C3_Witness ==
    /\ Called("add_account")
    /\ last.fault.write # "ok" /\ last.fault.del = "ok"
    /\ RecordOf(before.file, last.name) = <<>>
    /\ Listed(before.file) # {}
    /\ last.out.raised = "ConfigSaveError"
    /\ SecretOf(keyring, last.name) = <<>>

\* C4: after a get_account that migrated a legacy record, a later
\* get_account of the same name (no fault during it, no add or remove of the
\* name in between) returns the same credentials by reading the Secret,
\* writes neither store and leaves the config document as it was.
C4_MigrationIdempotent ==
    [][\A n \in Names :
          (/\ hist.migrated[n] # <<>>
           /\ last'.op = "get_account" /\ last'.name = n
           /\ last'.fault = NoFault)
              => /\ last'.out.ret = "AccountCredentials"
                 /\ last'.out.creds = hist.migrated[n]
                 /\ last'.out.calls = <<"read", "get_password">>
                 /\ config_file' = config_file
                 /\ keyring' = keyring]_vars

\* C4 witness: the second get_account of a migrated name has returned.
C4_Witness ==
    /\ Called("get_account")
    /\ hist.migrated[last.name] # <<>>
    /\ ~IsLegacy(before.file, last.name)
    /\ last.out.creds = hist.migrated[last.name]

\* C5: a get_account that returns for a legacy record has stored the inline
\* password under the account's key, has persisted the record without the
\* password field (username, server, every other record and the order of
\* the records unchanged) and returns the inline password with the record's
\* username and server; its backend calls are read, set_password, write.
C5_FirstGetMigrates ==
    (Called("get_account") /\ Returned /\ IsLegacy(before.file, last.name))
        => LET old == RecordOf(before.file, last.name)[1]
           IN  /\ SecretOf(keyring, last.name) = <<old.password>>
               /\ config_file.exists /\ config_file.parses
               /\ RecordOf(config_file, last.name) =
                      <<[username |-> old.username, server |-> old.server]>>
               /\ \A m \in Names \ {last.name} :
                      RecordOf(config_file, m) = RecordOf(before.file, m)
               /\ list_accounts(config_file, keyring).names =
                      list_accounts(before.file, keyring).names
               /\ last.out.creds =
                      <<AccountCredentials(old.username, old.password, old.server)>>
               /\ last.out.calls = <<"read", "set_password", "write">>

\* C5 witness: a legacy record was migrated while another record was in the
\* document and an older Secret lay under the account's key.
C5_Witness ==
    /\ Called("get_account") /\ Returned /\ IsLegacy(before.file, last.name)
    /\ Cardinality(Listed(before.file)) = 2
    /\ SecretOf(before.keyring, last.name) # <<>>
    /\ SecretOf(before.keyring, last.name) # SecretOf(keyring, last.name)

\* C6: get_account on a migrated record whose Secret is absent, the backend
\* itself working, raises PasswordNotFoundError.
C6_PasswordNotFound ==
    (/\ Called("get_account") /\ last.fault.get = "ok"
     /\ AccountState(before.file, before.keyring, last.name) = "MetadataOnly")
        => last.out.raised = "PasswordNotFoundError"

\* C7: remove_account on a name with a record, the config write working,
\* returns True; afterwards the record is gone, the Secret is gone when the
\* backend delete worked, get_account returns None and another
\* remove_account returns False.
C7_Remove ==
    (/\ Called("remove_account") /\ last.fault.write = "ok"
     /\ RecordOf(before.file, last.name) # <<>>)
        => /\ last.out.ret = "True"
           /\ RecordOf(config_file, last.name) = <<>>
           /\ last.fault.del = "ok" => SecretOf(keyring, last.name) = <<>>
           /\ get_account(config_file, keyring, last.name, NoFault).ret = "None"
           /\ remove_account(config_file, keyring, last.name, NoFault).ret = "False"

\* C7 witness: an account with record and Secret was removed, another stays.
C7_Witness ==
    /\ Called("remove_account") /\ last.out.ret = "True"
    /\ AccountState(before.file, before.keyring, last.name) = "SecretPresent"
    /\ SecretOf(keyring, last.name) = <<>>
    /\ Listed(config_file) # {}

\* C8: remove_account on a name without record returns False, whatever the
\* config file and the backends do, makes no backend call but the read and
\* leaves both stores as they were.
C8_RemoveUnknown ==
    (Called("remove_account") /\ RecordOf(before.file, last.name) = <<>>)
        => /\ last.out.ret = "False" /\ Returned
           /\ last.out.calls = <<"read">>
           /\ Stores = before
           /\ \A o \in Faults :
                 remove_account(before.file, before.keyring, last.name, o)
                    = Return(before.file, before.keyring, "False", <<"read">>)

\* C8 witness: remove_account of an unknown name whose key holds a Secret,
\* on a config file that does not parse.
C8_Witness ==
    /\ Called("remove_account") /\ last.out.ret = "False"
    /\ ~before.file.parses
    /\ SecretOf(keyring, last.name) # <<>>

\* C9: after calls that all ran without fault, list_accounts returns the
\* names present at the start or added, and not removed since, each once;
\* the list is the same for every content of the keyring, so a repeated call
\* returns it again.
C9_List ==
    (Called("list_accounts") /\ hist.clean)
        => /\ {last.out.names[i] : i \in 1..Len(last.out.names)} = hist.live
           /\ Len(last.out.names) = Cardinality(hist.live)
           /\ \A k \in SeedKeyrings \cup {keyring} :
                 list_accounts(config_file, k).names = last.out.names

\* C9 witness: list_accounts has returned two names, one of them re-added,
\* with a keyring that holds no Secret for one of them.
C9_Witness ==
    /\ Called("list_accounts") /\ hist.clean
    /\ Len(last.out.names) = 2
    /\ \E n \in Names : hist.added[n] # <<>> /\ hist.migrated[n] = <<>>
    /\ \E n \in Names : SecretOf(keyring, n) = <<>>

\* C10: add_account that returns for a name that had a record overwrites:
\* get_account then returns the new credentials, the name is listed once,
\* and the record carries no password field.
C10_Overwrite ==
    (Called("add_account") /\ Returned /\ RecordOf(before.file, last.name) # <<>>)
        => /\ get_account(config_file, keyring, last.name, NoFault).creds = <<last.args>>
           /\ Cardinality({i \in 1..Len(list_accounts(config_file, keyring).names) :
                 list_accounts(config_file, keyring).names[i] = last.name}) = 1
           /\ ~IsLegacy(config_file, last.name)
           /\ RecordOf(config_file, last.name) =
                  <<[username |-> last.args.username, server |-> last.args.server]>>

\* C10 witness: add_account has overwritten a legacy record with other
\* values.
C10_Witness ==
    /\ Called("add_account") /\ Returned
    /\ IsLegacy(before.file, last.name)
    /\ RecordOf(before.file, last.name)[1].username # last.args.username
    /\ RecordOf(before.file, last.name)[1].password # last.args.password

\* C11: when the keyring delete of remove_account fails with a backend
\* error, the call prints a warning, still writes the config without the
\* record and returns True, so that the name is no longer listed; when the
\* Secret is absent the delete's PasswordDeleteError is passed over without
\* a warning.
C11_RemoveDespiteDeleteFailure ==
    (/\ Called("remove_account") /\ last.fault.write = "ok"
     /\ RecordOf(before.file, last.name) # <<>>
     /\ last.fault.del = "error" \/ SecretOf(before.keyring, last.name) = <<>>)
        => /\ last.out.ret = "True"
           /\ config_file.exists /\ config_file.parses
           /\ last.name \notin Listed(config_file)
           /\ keyring = before.keyring
           /\ last.out.calls =
                 IF last.fault.del = "error"
                 THEN <<"read", "delete_password", "print", "write">>
                 ELSE <<"read", "delete_password", "write">>

\* C11 witness: remove_account has returned True although the backend
\* failed to delete a Secret that is still in the keyring.
C11_Witness ==
    /\ Called("remove_account") /\ last.fault.del = "error"
    /\ last.out.ret = "True"
    /\ SecretOf(keyring, last.name) # <<>>
    /\ last.name \in Listed(before.file)
    /\ last.name \notin Listed(config_file)

\* The names whose record in the file's document carries a password field,
\* whether or not the file parses.
InlinePasswords(f) ==
    IF ~f.exists \/ ~HasAccounts(f.doc) THEN {}
    ELSE {f.doc.accounts[i].key : i \in
            {i \in 1..Len(f.doc.accounts) :
                "password" \in DOMAIN f.doc.accounts[i].value}}

\* C12: no call, failed or not, writes a password field into a record that
\* did not carry one: the records with an inline password after a call are
\* among those that carried one, with that password, before it.
C12_NoPasswordWritten ==
    /\ InlinePasswords(config_file) \subseteq InlinePasswords(before.file)
    /\ \A n \in Names :
          IsLegacy(config_file, n) =>
              RecordOf(config_file, n) = RecordOf(before.file, n)

\* C12 witness: a call has failed part-way and a legacy record is still in
\* the document, next to a record written by add_account.
C12_Witness ==
    /\ ~Returned
    /\ \E n \in Names : IsLegacy(config_file, n)
    /\ \E n \in Names : RecordOf(config_file, n) # <<>> /\ ~IsLegacy(config_file, n)

\* C13: add_account calls the keyring first; when that write fails it raises
\* KeyringStorageError after that one call and the config file is as it
\* was; the config is written only after the Secret was.
C13_SecretFirst ==
    Called("add_account") =>
        /\ last.out.calls[1] = "set_password"
        /\ last.fault.set = "error" =>
              /\ last.out.raised = "KeyringStorageError"
              /\ last.out.calls = <<"set_password">>
              /\ Stores = before
        /\ config_file # before.file => last.fault.set = "ok"

\* C13 witness: the keyring write of add_account failed on an existing
\* document.
C13_Witness ==
    /\ Called("add_account") /\ last.fault.set = "error"
    /\ last.out.raised = "KeyringStorageError"
    /\ Listed(config_file) # {}

\* C14: every exception add_account, get_account or remove_account raises is
\* one of the CredentialError subclasses, also when the write of the config
\* document fails in the migrating get_account or in remove_account.
C14_RaisesCredentialErrors ==
    (Called("add_account") \/ Called("get_account") \/ Called("remove_account"))
        => (Returned \/ last.out.raised \in CredentialErrors)

\* C15: while the config file exists, holds records and cannot be parsed,
\* get_account of a name it holds does not return None, remove_account of
\* such a name does not return False and list_accounts does not return the
\* empty list.
C15_NoSilentDowngrade ==
    (before.file.exists /\ ~before.file.parses /\ HasAccounts(before.file.doc))
        => LET held == {before.file.doc.accounts[i].key :
                          i \in 1..Len(before.file.doc.accounts)}
           IN  /\ (Called("get_account") /\ last.name \in held)
                      => last.out.ret # "None"
               /\ (Called("remove_account") /\ last.name \in held)
                      => last.out.ret # "False"
               /\ (Called("list_accounts") /\ held # {})
                      => last.out.names # <<>>

\* C16: an add_account that returns while the existing config file cannot be
\* parsed does not drop the records that file holds: each of them, but the
\* one it writes, is in the document afterwards.
C16_AddKeepsUnreadRecords ==
    (/\ Called("add_account") /\ Returned
     /\ before.file.exists /\ ~before.file.parses /\ HasAccounts(before.file.doc))
        => \A i \in 1..Len(before.file.doc.accounts) :
              LET item == before.file.doc.accounts[i]
              IN  item.key # last.name =>
                      RecordOf(config_file, item.key) = <<item.value>>

\* C19: a Secret without record is inert: for such a name get_account
\* returns None and remove_account returns False, both leaving the stores
\* (the orphan Secret too) as they were, and list_accounts omits the name.
C19_OrphanSecretInert ==
    /\ (/\ Called("get_account") \/ Called("remove_account")
        /\ RecordOf(before.file, last.name) = <<>>
        /\ SecretOf(before.keyring, last.name) # <<>>)
          => /\ Returned
             /\ last.out.ret = (IF Called("get_account") THEN "None" ELSE "False")
             /\ last.out.creds = <<>>
             /\ Stores = before
    /\ Called("list_accounts")
          => \A n \in Names :
                (RecordOf(before.file, n) = <<>> /\ SecretOf(before.keyring, n) # <<>>)
                    => \A i \in 1..Len(last.out.names) : last.out.names[i] # n

\* C19 witness: remove_account has returned False for a name whose orphan
\* Secret is still in the keyring, while the other name has a record.
C19_Witness ==
    /\ Called("remove_account") /\ last.out.ret = "False"
    /\ before.file.parses
    /\ RecordOf(config_file, last.name) = <<>>
    /\ SecretOf(keyring, last.name) # <<>>
    /\ Listed(config_file) # {}

\* C20: list_accounts, get_keyring_info, get_account on a name without
\* record or with a record without inline password (returning or raising)
\* and remove_account on a name without record leave the config file and
\* the keyring as they were; a call after which a store differs is an
\* add_account, a remove_account on a name with a record or a get_account
\* on a legacy record.
C20_Frame ==
    /\ (\/ Called("list_accounts")
        \/ Called("get_keyring_info")
        \/ Called("get_account") /\ ~IsLegacy(before.file, last.name)
        \/ Called("remove_account") /\ RecordOf(before.file, last.name) = <<>>)
          => Stores = before
    /\ Stores # before
          => \/ Called("add_account")
             \/ Called("remove_account") /\ RecordOf(before.file, last.name) # <<>>
             \/ Called("get_account") /\ IsLegacy(before.file, last.name)

\* C20 witness: get_account has raised on a record without inline password
\* whose Secret is absent, and nothing has changed.
C20_Witness ==
    /\ Called("get_account") /\ ~Returned
    /\ AccountState(before.file, before.keyring, last.name) = "MetadataOnly"
    /\ Stores = before

\* C17: a migrate command that ran its loop has called get_account on every
\* account whose record carried an inline password, failures included; its
\* count is the number of those calls that did not raise; afterwards each
\* account whose call did not raise has a Secret and a record without
\* password field, and each account whose call raised is still a legacy
\* record.
C17_MigrateAll ==
    (Called("migrate") /\ last.out.ret = "completed")
        => LET results == last.out.results
               ok == {i \in 1..Len(results) : results[i].raised = ""}
           IN  /\ [i \in 1..Len(results) |-> results[i].name]
                     = AccountsToMigrate(_read_config(before.file))
               /\ {results[i].name : i \in 1..Len(results)}
                     = {n \in Names : IsLegacy(before.file, n)}
               /\ last.out.migrated = Cardinality(ok)
               /\ \A i \in 1..Len(results) :
                     IF i \in ok
                     THEN /\ SecretOf(keyring, results[i].name) # <<>>
                          /\ RecordOf(config_file, results[i].name) # <<>>
                          /\ ~IsLegacy(config_file, results[i].name)
                     ELSE IsLegacy(config_file, results[i].name)

\* C18: two callers of add_account whose read-modify-write interleave. When
\* both have returned, the file holds the document of the caller that wrote
\* last; each caller's password is in the keyring under its name; and when the
\* last writer read the file before the first writer wrote it, the first
\* writer's account, new and of another name, is not listed although its
\* Secret remains in the keyring.
AllDone == \A c \in Callers : callers[c].pc = "done"

FirstWriter == writers[1]

LastWriter == writers[Len(writers)]

Interleaved ==
    /\ AllDone
    /\ callers[LastWriter].seen = 0
    /\ callers[FirstWriter].name # callers[LastWriter].name
    /\ callers[FirstWriter].name \notin Listed(before.file)

C18_LastWriterWins ==
    /\ AllDone => config_file = FileOf(callers[LastWriter].config)
    /\ AllDone =>
          \A c \in Callers :
              (\A d \in Callers \ {c} : callers[d].name # callers[c].name)
              => SecretOf(keyring, callers[c].name) = <<callers[c].args.password>>
    /\ Interleaved =>
          /\ callers[FirstWriter].name \notin Listed(config_file)
          /\ callers[LastWriter].name \in Listed(config_file)
          /\ SecretOf(keyring, callers[FirstWriter].name)
               = <<callers[FirstWriter].args.password>>

\* Both calls have returned and the first writer's update is lost.
C18_Witness ==
    /\ Interleaved
    /\ Len(writers) = 2
    /\ callers[FirstWriter].name \notin Listed(config_file)
    /\ SecretOf(keyring, callers[FirstWriter].name) # <<>>

\* C21: distinct names have distinct keyring keys, and add_account,
\* get_account and remove_account of one name leave the Secret, the username
\* and the server of every other account as they were.
PublicData(f, name) ==
    IF RecordOf(f, name) = <<>> THEN <<>>
    ELSE <<[username |-> RecordOf(f, name)[1].username,
            server |-> RecordOf(f, name)[1].server]>>

C21_OtherAccountsUntouched ==
    /\ \A n, m \in Names : n # m => KeyOf(n) # KeyOf(m)
    /\ last.op \in {"add_account", "get_account", "remove_account"} =>
          \A m \in Names \ {last.name} :
              /\ SecretOf(keyring, m) = SecretOf(before.keyring, m)
              /\ PublicData(config_file, m) = PublicData(before.file, m)

\* C22: a manager keeps no document between calls (its fields are the path
\* of the file and the service name), so every call answers from the file as
\* the call before it, made through whatever manager, left it: list_accounts
\* returns its names, get_account and remove_account find a name exactly when
\* it holds a record of it, and add_account writes that document with one
\* record set; each such call reads the file before it writes it.
Persisted(f) == IF f.exists /\ f.parses /\ HasAccounts(f.doc) THEN f.doc.accounts
                ELSE EmptyDict

ReadsFirst(calls) ==
    /\ \E i \in 1..Len(calls) : calls[i] = "read"
    /\ \A i, j \in 1..Len(calls) : (calls[i] = "read" /\ calls[j] = "write") => i < j

C22_NoCache ==
    /\ (Called("list_accounts"))
          => /\ last.out.names = DictKeys(Persisted(before.file))
             /\ ReadsFirst(last.out.calls)
    /\ (Called("get_account"))
          => /\ last.out.ret = "None" <=> ~DictHas(Persisted(before.file), last.name)
             /\ ReadsFirst(last.out.calls)
    /\ (Called("remove_account"))
          => /\ last.out.ret = "False" <=> ~DictHas(Persisted(before.file), last.name)
             /\ ReadsFirst(last.out.calls)
    /\ (Called("add_account") /\ Returned)
          => /\ Persisted(config_file)
                  = DictSet(Persisted(before.file), last.name,
                            [username |-> last.args.username,
                             server |-> last.args.server])
             /\ ReadsFirst(last.out.calls)
    /\ (Called("list_accounts") /\ hist.clean)
          => \A n \in Names :
                hist.added[n] # <<>>
                    => \E i \in 1..Len(last.out.names) : last.out.names[i] = n

\* C22 witness: list_accounts returns a name that an earlier call added to
\* a file that did not hold it at the start, and not one removed since.
C22_Witness ==
    /\ Called("list_accounts") /\ hist.clean
    /\ \E n \in Names :
          /\ hist.added[n] # <<>>
          /\ \E i \in 1..Len(last.out.names) : last.out.names[i] = n
    /\ Len(last.out.names) = 1

\* C23: whenever the connection test of add_imap_account reports a failure
\* (its result is a message, not the dict of a connection that worked),
\* add_account is not called, neither store is written and the command
\* returns a failure message.
C23_TestBeforeSave ==
    (Called("add_imap_account") /\ last.out.connection_test.isstr)
        => /\ last.out.calls = <<>>
           /\ Stores = before
           /\ last.out.ret = "str"

\* C24: the remove command, confirmed or forced, on an account that has a
\* record but no Secret in the keyring prints the warning and removes the
\* record: the name is not listed afterwards.
C24_RemoveMetadataOnly ==
    (/\ Called("remove") /\ last.fault = NoFault
     /\ last.out.ret # "cancelled"
     /\ AccountState(before.file, before.keyring, last.name) = "MetadataOnly")
        => /\ last.out.warned
           /\ last.name \notin Listed(config_file)

\* C25: get_account on a legacy record never loses the password: after the
\* call, failed or not, the password is in the record or in the keyring;
\* and after a call that raised the record is still legacy, so that the next
\* get_account migrates again and returns the credentials of that record.
LegacyCredentials(f, name) ==
    AccountCredentials(RecordOf(f, name)[1].username,
                       RecordOf(f, name)[1].password,
                       RecordOf(f, name)[1].server)

PasswordKept(f, k, name, password) ==
    \/ IsLegacy(f, name) /\ RecordOf(f, name)[1].password = password
    \/ SecretOf(k, name) = <<password>>

C25_PasswordNeverLost ==
    (Called("get_account") /\ IsLegacy(before.file, last.name))
        => /\ PasswordKept(config_file, keyring, last.name,
                           LegacyCredentials(before.file, last.name).password)
           /\ ~Returned =>
                 /\ IsLegacy(config_file, last.name)
                 /\ get_account(config_file, keyring, last.name, NoFault).creds
                      = <<LegacyCredentials(before.file, last.name)>>

\* C26: when the config write of remove_account fails for an account that
\* had a record and a Secret, the exception reaches the caller, the Secret
\* is already deleted and the record is still listed: the account is left
\* MetadataOnly and a following get_account raises.
C26_RemoveWriteFails ==
    (/\ Called("remove_account")
     /\ last.fault.del = "ok" /\ last.fault.write # "ok"
     /\ AccountState(before.file, before.keyring, last.name) = "SecretPresent")
        => /\ last.out.raised = "Exception"
           /\ last.out.calls = <<"read", "delete_password", "write">>
           /\ SecretOf(keyring, last.name) = <<>>
           /\ last.name \in Listed(config_file)
           /\ AccountState(config_file, keyring, last.name) = "MetadataOnly"
           /\ get_account(config_file, keyring, last.name, NoFault).raised # ""

\* C27: caller b's get_account migrates the legacy record of a name and
\* persists it without the password; caller a's add_account or
\* remove_account of another name read the document while the record was
\* still legacy and writes after b.  Then the persisted record carries the
\* inline password again, although its Secret is in the keyring.  When the
\* migrating caller writes last, or alone, the persisted record carries none.
Migrator(b) ==
    /\ callers[b].op = "get_account" /\ callers[b].pc = "done"
    /\ b = writers[1]

StaleWriter(a, b) ==
    /\ callers[a].op \in {"add_account", "remove_account"}
    /\ callers[a].pc = "done"
    /\ callers[a].name # callers[b].name
    /\ writers = <<b, a>>
    /\ callers[a].seen = 0

Resurrected(name, password) ==
    /\ IsLegacy(config_file, name)
    /\ RecordOf(config_file, name)[1].password = password
    /\ SecretOf(keyring, name) = <<password>>

C27_StaleWriterResurrects ==
    \A b \in Callers :
        (writers # <<>> /\ Migrator(b)) =>
            /\ \A a \in Callers \ {b} :
                  StaleWriter(a, b)
                      => Resurrected(callers[b].name, callers[b].args.password)
            /\ writers = <<b>> => ~IsLegacy(config_file, callers[b].name)

\* C27 witness: the record was migrated and is legacy again after the
\* remove_account of another name.
C27_Witness ==
    \E b \in Callers, a \in Callers :
        /\ writers # <<>> /\ Migrator(b) /\ StaleWriter(a, b)
        /\ callers[a].op = "remove_account"
        /\ Resurrected(callers[b].name, callers[b].args.password)

\* C28: after logout on a session that was logged in, state.mailbox is None
\* whether mailbox.logout() worked or failed; on a session that was not
\* logged in, logout returns the not-logged-in message and changes nothing.
C28_LogoutClears ==
    tool.name = "logout" =>
        IF tool.before.mailbox.present
        THEN state.mailbox = None
        ELSE tool.ret = "Not logged in. Please login first." /\ state = tool.before

\* C29: state.mailbox is a MailBox only if the login that put it there
\* succeeded, and a login tool that did not succeed leaves state.mailbox as
\* it was, so that no guarded tool runs on a mailbox whose login failed.
LoginTools == {"login", "core.login", "login_with_stored_account"}

C29_MailboxOnlyAfterLogin ==
    /\ state.mailbox.present => state.mailbox.logged_in
    /\ (tool.name \in LoginTools /\ tool.ret # "Login successful.")
          => state = tool.before

\* C30: a paginated tool called with a folder_name other than the selected
\* folder leaves the session's selected folder as it was, on every return
\* path.
C30_FolderRestored ==
    (/\ tool.name \in PaginatedTools
     /\ tool.before.mailbox.present /\ tool.before.mailbox.logged_in
     /\ tool.folder_name # "" /\ tool.folder_name # tool.before.mailbox.folder)
        => state.mailbox.folder = tool.before.mailbox.folder

====
